---- MODULE Spec2Model ----
(***************************************************************************)
(* Model of app/src/main/assets/tflite-model-shape-checker.py: a six-line  *)
(* script that imports the ML runtime, binds a hard-coded model path,      *)
(* builds an interpreter from it, allocates its tensors and prints the     *)
(* input and the output tensor details.  Every runtime call either returns *)
(* or raises; a raised exception is not caught and ends the process.       *)
(***************************************************************************)
EXTENDS Integers, Sequences, FiniteSets, TLC

\* ---------------------------------------------------------------- bounds
\* Number of times the script is started in one behaviour.
MaxRuns == 2
\* Largest tensor dimension stored in a model file.
MaxDim == 2

\* ------------------------------------------------------------- constants
\* The string literal of line 2.
ModelPath == "/home/michael/git/litert-samples/examples/audio_classification/android/app/src/main/assets/okay_nabu.tflite"
\* Another path of the file system, which the script never names.
OtherPath == "/tmp/other.tflite"
Paths == {ModelPath, OtherPath}

\* Labels of the two print statements (first positional argument).
InputLabel == "Input shape :\n"
OutputLabel == "Output shape: \n"

\* The four runtime calls in source order, and the source lines in order.
CallOrder == <<"Interpreter", "allocate_tensors", "get_input_details", "get_output_details">>
LineOrder == <<1, 2, 3, 4, 5, 6>>

\* --------------------------------------------------- the file system
Shapes == {<<1, d>> : d \in 1..MaxDim}
NoFile == [kind |-> "missing", input |-> <<>>, output |-> <<>>]
BadFile == [kind |-> "malformed", input |-> <<>>, output |-> <<>>]
Models == {[kind |-> "model", input |-> i, output |-> o] : i \in Shapes, o \in Shapes}
FileContents == {NoFile, BadFile} \cup Models

\* Command lines and values of the environment the process may be started with.
ArgvSet == {<<"tflite-model-shape-checker.py">>, <<"tflite-model-shape-checker.py", OtherPath>>}
EnvironSet == {"", OtherPath}

\* --------------------------------------------------------------- state
VARIABLES
  pc,           \* the line about to execute, or "done" / "error"
  run,          \* number of the current process
  fs,           \* file system: persists from one run to the next
  argv,         \* command line of the current process
  environ,      \* value of the environment of the current process
  TFLITE_PATH,  \* the module global of line 2 ("" while unbound)
  interpreter,  \* the module global of line 3
  stdout,       \* reports written to standard output by the current process
  calls,        \* runtime calls made by the current process, in order
  lines,        \* source lines begun by the current process, in order
  err           \* the call that raised, "none" while nothing raised

vars == <<pc, run, fs, argv, environ, TFLITE_PATH, interpreter, stdout, calls, lines, err>>

Unbound == [state |-> "unbound", model_path |-> "", model |-> NoFile]
Terminal == {"done", "error"}

\* ------------------------------------------------------ pure helpers
IsPrefix(s, t) == Len(s) <= Len(t) /\ \A i \in 1..Len(s) : s[i] = t[i]

Count(s, x) == Cardinality({i \in 1..Len(s) : s[i] = x})

\* tf.compat.v1.lite.Interpreter(model_path=p): the object built from the file at p.
Interpreter(p) == [state |-> "constructed", model_path |-> p, model |-> fs[p]]

\* interpreter.get_input_details() / get_output_details()
get_input_details(it) == it.model.input
get_output_details(it) == it.model.output

\* print(label, details): one report on standard output.
Report(label, details) == [label |-> label, details |-> details]

\* Variant: the path is taken from the command line when one is given.
PathArgument_FromArgv == IF Len(argv) > 1 THEN argv[2] ELSE TFLITE_PATH

\* The path handed to the Interpreter constructor on line 3.
PathArgument == TFLITE_PATH

\* Variant: buffered output is discarded when the process dies.
Raise_Discard(c) ==
  /\ pc' = "error"
  /\ err' = c
  /\ stdout' = <<>>
  /\ UNCHANGED <<run, fs, argv, environ, TFLITE_PATH, interpreter>>

\* An uncaught exception raised by call c: the process ends, nothing is written.
Raise(c) ==
  /\ pc' = "error"
  /\ err' = c
  /\ UNCHANGED <<run, fs, argv, environ, TFLITE_PATH, interpreter, stdout>>

\* ------------------------------------------------------------- Init
Init ==
  /\ pc = "import"
  /\ run = 1
  /\ fs \in [Paths -> FileContents]
  /\ argv \in ArgvSet
  /\ environ \in EnvironSet
  /\ TFLITE_PATH = ""
  /\ interpreter = Unbound
  /\ stdout = <<>>
  /\ calls = <<>>
  /\ lines = <<>>
  /\ err = "none"

\* ---------------------------------------------------------- actions
\* line 1: import tensorflow as tf
ImportOk ==
  /\ pc = "import"
  /\ pc' = "assign"
  /\ lines' = Append(lines, 1)
  /\ UNCHANGED <<run, fs, argv, environ, TFLITE_PATH, interpreter, stdout, calls, err>>

ImportFail ==
  /\ pc = "import"
  /\ lines' = Append(lines, 1)
  /\ calls' = calls
  /\ Raise("import")

\* line 2: TFLITE_PATH = "<literal>"
AssignPath ==
  /\ pc = "assign"
  /\ TFLITE_PATH' = ModelPath
  /\ pc' = "construct"
  /\ lines' = Append(lines, 2)
  /\ UNCHANGED <<run, fs, argv, environ, interpreter, stdout, calls, err>>

\* Variant: the interpreter is used without allocating its tensors.
ConstructOk_NoAllocate ==
  /\ pc = "construct"
  /\ fs[PathArgument].kind = "model"
  /\ interpreter' = Interpreter(PathArgument)
  /\ calls' = Append(calls, "Interpreter")
  /\ lines' = Append(lines, 3)
  /\ pc' = "print_input"
  /\ UNCHANGED <<run, fs, argv, environ, TFLITE_PATH, stdout, err>>

\* line 3: interpreter = tf.compat.v1.lite.Interpreter(model_path=TFLITE_PATH)
ConstructOk ==
  /\ pc = "construct"
  /\ fs[PathArgument].kind = "model"
  /\ interpreter' = Interpreter(PathArgument)
  /\ calls' = Append(calls, "Interpreter")
  /\ lines' = Append(lines, 3)
  /\ pc' = "allocate"
  /\ UNCHANGED <<run, fs, argv, environ, TFLITE_PATH, stdout, err>>

\* Variant: a failed construction is tried again.
ConstructFail_Retry ==
  /\ pc = "construct"
  /\ Len(calls) < 3
  /\ calls' = Append(calls, "Interpreter")
  /\ lines' = Append(lines, 3)
  /\ UNCHANGED <<pc, err, run, fs, argv, environ, TFLITE_PATH, interpreter, stdout>>

ConstructFail ==
  /\ pc = "construct"
  /\ calls' = Append(calls, "Interpreter")
  /\ lines' = Append(lines, 3)
  /\ Raise("Interpreter")

\* line 4: interpreter.allocate_tensors()
AllocateOk ==
  /\ pc = "allocate"
  /\ interpreter' = [interpreter EXCEPT !.state = "allocated"]
  /\ calls' = Append(calls, "allocate_tensors")
  /\ lines' = Append(lines, 4)
  /\ pc' = "print_input"
  /\ UNCHANGED <<run, fs, argv, environ, TFLITE_PATH, stdout, err>>

\* Variant: the exception is caught, reported on standard output, and the
\* script carries on.
AllocateFail_Caught ==
  /\ pc = "allocate"
  /\ calls' = Append(calls, "allocate_tensors")
  /\ lines' = Append(lines, 4)
  /\ err' = "allocate_tensors"
  /\ stdout' = Append(stdout, Report("allocate_tensors failed", <<>>))
  /\ pc' = "print_input"
  /\ UNCHANGED <<run, fs, argv, environ, TFLITE_PATH, interpreter>>

AllocateFail ==
  /\ pc = "allocate"
  /\ calls' = Append(calls, "allocate_tensors")
  /\ lines' = Append(lines, 4)
  /\ Raise("allocate_tensors")

\* Variant: the two print statements are exchanged.
PrintInputOk_Swapped ==
  /\ pc = "print_input"
  /\ calls' = Append(calls, "get_output_details")
  /\ stdout' = Append(stdout, Report(OutputLabel, get_output_details(interpreter)))
  /\ lines' = Append(lines, 5)
  /\ pc' = "print_output"
  /\ UNCHANGED <<run, fs, argv, environ, TFLITE_PATH, interpreter, err>>

\* line 5: print("Input shape :\n" , interpreter.get_input_details())
PrintInputOk ==
  /\ pc = "print_input"
  /\ calls' = Append(calls, "get_input_details")
  /\ stdout' = Append(stdout, Report(InputLabel, get_input_details(interpreter)))
  /\ lines' = Append(lines, 5)
  /\ pc' = "print_output"
  /\ UNCHANGED <<run, fs, argv, environ, TFLITE_PATH, interpreter, err>>

\* Variant: a failed details query sends the script back to allocation.
PrintInputFail_Reallocate ==
  /\ pc = "print_input"
  /\ Len(calls) < 4
  /\ calls' = Append(calls, "get_input_details")
  /\ lines' = Append(lines, 5)
  /\ pc' = "allocate"
  /\ UNCHANGED <<err, run, fs, argv, environ, TFLITE_PATH, interpreter, stdout>>

PrintInputFail ==
  /\ pc = "print_input"
  /\ calls' = Append(calls, "get_input_details")
  /\ lines' = Append(lines, 5)
  /\ Raise("get_input_details")

\* line 6: print("Output shape: \n", interpreter.get_output_details())
PrintOutputOk ==
  /\ pc = "print_output"
  /\ calls' = Append(calls, "get_output_details")
  /\ stdout' = Append(stdout, Report(OutputLabel, get_output_details(interpreter)))
  /\ lines' = Append(lines, 6)
  /\ pc' = "done"
  /\ UNCHANGED <<run, fs, argv, environ, TFLITE_PATH, interpreter, err>>

PrintOutputFail ==
  /\ pc = "print_output"
  /\ calls' = Append(calls, "get_output_details")
  /\ lines' = Append(lines, 6)
  /\ Raise("get_output_details")

\* The script is started again: a fresh process with fresh globals and a fresh
\* standard output; only the file system is carried over.
StartRun ==
  /\ pc \in Terminal
  /\ run < MaxRuns
  /\ run' = run + 1
  /\ pc' = "import"
  /\ argv' \in ArgvSet
  /\ environ' \in EnvironSet
  /\ TFLITE_PATH' = ""
  /\ interpreter' = Unbound
  /\ stdout' = <<>>
  /\ calls' = <<>>
  /\ lines' = <<>>
  /\ err' = "none"
  /\ UNCHANGED fs

\* One step of the running script.
Step ==
  \/ ImportOk \/ ImportFail
  \/ AssignPath
  \/ ConstructOk \/ ConstructFail
  \/ AllocateOk \/ AllocateFail
  \/ PrintInputOk \/ PrintInputFail
  \/ PrintOutputOk \/ PrintOutputFail

Next ==
  \/ ImportOk
  \/ ImportFail
  \/ AssignPath
  \/ ConstructOk
  \/ ConstructFail
  \/ AllocateOk
  \/ AllocateFail
  \/ PrintInputOk
  \/ PrintInputFail
  \/ PrintOutputOk
  \/ PrintOutputFail
  \/ StartRun

Spec == Init /\ [][Next]_vars

\* Each runtime call returns or raises, so a started script keeps stepping.
FairSpec == Init /\ [][Next]_vars /\ WF_vars(Step)

TypeOK ==
  /\ pc \in {"import", "assign", "construct", "allocate", "print_input", "print_output", "done", "error"}
  /\ run \in 1..MaxRuns
  /\ fs \in [Paths -> FileContents]
  /\ argv \in ArgvSet
  /\ environ \in EnvironSet
  /\ TFLITE_PATH \in {"", ModelPath}
  /\ interpreter.state \in {"unbound", "constructed", "allocated"}
  /\ Len(stdout) <= 2
  /\ Len(calls) <= 4
  /\ Len(lines) <= 6

\* ------------------------------------------------------------ properties
\* The two reports a complete run writes, taken from the model file at the
\* hard-coded path.
ExpectedReports ==
  << Report(InputLabel, fs[ModelPath].input), Report(OutputLabel, fs[ModelPath].output) >>

\* Position of a line in the script; terminal states come last.
Rank(p) ==
  CASE p = "import" -> 1
    [] p = "assign" -> 2
    [] p = "construct" -> 3
    [] p = "allocate" -> 4
    [] p = "print_input" -> 5
    [] p = "print_output" -> 6
    [] OTHER -> 7

\* C1: a run in which nothing fails writes exactly the input report and then
\* the output report and stops; standard output never holds a third report,
\* and never holds the output report without the input report before it.
C1_TwoReportsInOrder ==
  /\ IsPrefix(stdout, ExpectedReports)
  /\ Len(stdout) <= 2
  /\ \A i \in 1..Len(stdout) : stdout[i].label = OutputLabel => i = 2 /\ stdout[1].label = InputLabel
  /\ (pc = "done" => err = "none" /\ stdout = ExpectedReports /\ ~ENABLED Step)
  /\ (pc \in Terminal /\ err = "none" => pc = "done")

C1_Witness ==
  /\ pc = "done"
  /\ Len(stdout) = 2
  /\ stdout[1].label = InputLabel
  /\ stdout[2].label = OutputLabel

\* C2: a call that raises ends the run at once in the error state: the failing
\* call is made once and is the last call of the run, the raising step writes
\* nothing to standard output, and nothing of the run executes afterwards.
C2_FailureStep ==
  /\ (err = "none" /\ err' # "none") =>
        /\ pc' = "error"
        /\ stdout' = stdout
        /\ interpreter' = interpreter
        /\ TFLITE_PATH' = TFLITE_PATH
  /\ (err # "none") => (run' = run + 1 /\ pc' = "import" /\ err' = "none")

C2_FailureState ==
  /\ (err # "none") <=> (pc = "error")
  /\ (pc = "error") => ~ENABLED Step
  /\ (pc = "error" /\ err # "import") =>
        /\ calls # <<>>
        /\ calls[Len(calls)] = err
        /\ Count(calls, err) = 1
  /\ \A i \in 1..Len(stdout) : stdout[i].label \in {InputLabel, OutputLabel}

C2_FailureEndsRun == [] C2_FailureState /\ [][C2_FailureStep]_vars

C2_Witness ==
  /\ pc = "error"
  /\ err = "Interpreter"
  /\ stdout = <<>>
  /\ fs[ModelPath].kind # "model"

\* C3 as stated: the run is a prefix of one fixed order of steps and makes
\* three library calls.
C3_ThreeCalls ==
  /\ IsPrefix(lines, LineOrder)
  /\ IsPrefix(calls, CallOrder)
  /\ Len(calls) <= 3

\* C3 as amended: the run is a prefix of one fixed order of six lines making
\* four library calls (Interpreter, allocate_tensors, get_input_details,
\* get_output_details), each at most once; a complete run makes all four.
C3_LinearFourCalls ==
  /\ IsPrefix(lines, LineOrder)
  /\ IsPrefix(calls, CallOrder)
  /\ \A c \in {CallOrder[i] : i \in 1..Len(CallOrder)} : Count(calls, c) <= 1
  /\ Len(lines) = Rank(pc) - 1 \/ pc = "error"
  /\ (pc = "done" => lines = LineOrder /\ calls = CallOrder)

C3_Witness ==
  /\ pc = "done"
  /\ calls = CallOrder
  /\ Len(calls) = 4

\* C4: the interpreter is always built from the literal path of line 2,
\* whatever the command line, the environment and the earlier runs were; the
\* global is bound once per run and keeps its value; no step of the script
\* changes the file system.
C4_PathState ==
  /\ TFLITE_PATH \in {"", ModelPath}
  /\ (TFLITE_PATH = "") <=> (Len(lines) < 2)
  /\ Count(lines, 2) <= 1
  /\ (interpreter.state # "unbound") =>
        /\ TFLITE_PATH = ModelPath
        /\ interpreter.model_path = ModelPath
        /\ interpreter.model = fs[ModelPath]

C4_PathStep ==
  /\ fs' = fs
  /\ (TFLITE_PATH # "" /\ run' = run) => TFLITE_PATH' = TFLITE_PATH

C4_HardCodedPath == [] C4_PathState /\ [][C4_PathStep]_vars

C4_Witness ==
  /\ run = MaxRuns
  /\ interpreter.state = "constructed"
  /\ interpreter.model_path = ModelPath
  /\ Len(argv) > 1
  /\ environ = OtherPath
  /\ fs[OtherPath] # fs[ModelPath]

\* The details queries of the run so far were made on an allocated interpreter.
DetailsAfterAllocation ==
  \A i \in 1..Len(calls) :
    calls[i] \in {"get_input_details", "get_output_details"} =>
      /\ interpreter.state = "allocated"
      /\ i > 2
      /\ calls[1] = "Interpreter"
      /\ calls[2] = "allocate_tensors"

\* C5 as stated: details are queried only after a successful construction and
\* a successful allocation, and every execution calls allocate_tensors
\* exactly once.
C5_AllocateExactlyOnce ==
  /\ DetailsAfterAllocation
  /\ (pc \in Terminal => Count(calls, "allocate_tensors") = 1)

\* C5 as amended: details are queried only after a successful construction
\* and a successful allocation; allocate_tensors is called at most once in
\* every execution, exactly once in an execution that ended after the
\* interpreter was constructed, and not at all in one that ended before.
C5_AllocateBeforeDetails ==
  /\ DetailsAfterAllocation
  /\ Count(calls, "allocate_tensors") <= 1
  /\ (interpreter.state = "allocated" => Count(calls, "allocate_tensors") = 1)
  /\ (pc \in {"print_input", "print_output", "done"} => interpreter.state = "allocated")
  /\ (pc \in Terminal =>
        Count(calls, "allocate_tensors") = (IF interpreter.state = "unbound" THEN 0 ELSE 1))

C5_Witness ==
  /\ pc = "print_output"
  /\ interpreter.state = "allocated"
  /\ calls = <<"Interpreter", "allocate_tensors", "get_input_details">>

\* C6: every run terminates, in "done" after the second print or in "error"
\* at the first call that raised, and within a run the script only moves
\* forward.
C6_ForwardStep == (run' = run) => Rank(pc') > Rank(pc)

C6_EndState ==
  /\ (pc = "done" => err = "none" /\ Len(stdout) = 2 /\ lines = LineOrder)
  /\ (pc = "error" => err # "none" /\ Count(calls, err) = (IF err = "import" THEN 0 ELSE 1))

C6_Terminates ==
  /\ [] C6_EndState
  /\ [][C6_ForwardStep]_vars
  /\ (pc \notin Terminal) ~> (pc \in Terminal)

C6_Witness ==
  /\ run = MaxRuns
  /\ pc \in Terminal
  /\ lines # <<>>

\* C7: when the run has ended, standard output holds no report if the import,
\* the construction, allocate_tensors or get_input_details raised, exactly the
\* input report if get_output_details raised, and both reports only if
\* nothing raised.
C7_ReportCount ==
  /\ (pc = "error" /\ err \in {"import", "Interpreter", "allocate_tensors", "get_input_details"}) =>
        stdout = <<>>
  /\ (pc = "error" /\ err = "get_output_details") =>
        stdout = << Report(InputLabel, fs[ModelPath].input) >>
  /\ (pc = "done") => Len(stdout) = 2
  /\ (Len(stdout) = 2) => (err = "none" /\ pc = "done")
  /\ (pc = "error") =>
        err \in {"import", "Interpreter", "allocate_tensors", "get_input_details", "get_output_details"}

C7_Witness ==
  /\ pc = "error"
  /\ err = "get_output_details"
  /\ Len(stdout) = 1
  /\ stdout[1].label = InputLabel

====
